---------------------------- MODULE Spec2Model ----------------------------
(***************************************************************************)
(* A model of the policy-as-code compliance reporting tool:                *)
(*   reporting/compliance_report.py  (ComplianceReporter and main)         *)
(*   reporting/cli.py                (the generate command)                *)
(*   reporting/generators/*.py       (the summaries of the reports)        *)
(*                                                                         *)
(* A run reads one input file, normalises it to a violation sequence,      *)
(* evaluates one or all registered frameworks against it and writes one    *)
(* HTML report per framework.  Python values are modelled as tagged        *)
(* records (JSON values), Python strings as sequences of one-character     *)
(* strings so that str.startswith is a comparison of characters, and a     *)
(* raised exception as the outcome [raised |-> <type>] of the operator     *)
(* that models the function.                                               *)
(***************************************************************************)
EXTENDS Integers, Sequences, FiniteSets, TLC

VARIABLES
    frameworks,   \* self.frameworks, the registry the reporter reads
    request,      \* the entry point that was called, with its framework
                  \* argument (compliance reporter) or formats (generate)
    input,        \* the input file: missing, not JSON, or its parsed JSON value
    pc,           \* the position of the run
    framework,    \* framework_name of the generate_report call in progress
    queue,        \* batch mode: the frameworks still to be processed
    violations,   \* what load_violations returned
    results,      \* what evaluate_framework returned
    written,      \* the output files written so far
    stderr,       \* the messages printed to the error stream
    exited,       \* whether the process has exited
    exit_code,    \* its exit code
    raised,       \* the exception that left the entry point, or "none"
    summary       \* generate: the summary each report generator computed

vars ==
    <<frameworks, request, input, pc, framework, queue, violations, results,
      written, stderr, exited, exit_code, raised, summary>>

(***************************************************************************)
(* Python and JSON values.                                                 *)
(***************************************************************************)

\* None (JSON null)
JNull ==
    [type |-> "null"]

\* an int (JSON number)
JNum(n) ==
    [type |-> "num", n |-> n]

\* a str: s is its sequence of characters
JStr(s) ==
    [type |-> "str", s |-> s]

\* a list: items is the sequence of its elements
JList(items) ==
    [type |-> "list", items |-> items]

\* a dict: pairs is the sequence of its <<key, value>> items in insertion
\* order, every key a sequence of characters that occurs once
JDict(pairs) ==
    [type |-> "dict", pairs |-> pairs]

\* a local variable that has not been assigned
Unset ==
    [type |-> "unset"]

\* isinstance(v, dict), isinstance(v, list), isinstance(v, str)
IsDict(v) ==
    v.type = "dict"

IsList(v) ==
    v.type = "list"

IsStr(v) ==
    v.type = "str"

\* key in d
HasKey(d, key) ==
    \E i \in 1..Len(d.pairs) : d.pairs[i][1] = key

\* d[key], for a key of d
Item(d, key) ==
    d.pairs[CHOOSE i \in 1..Len(d.pairs) : d.pairs[i][1] = key][2]

\* d.get(key, default)
Get(d, key, default) ==
    IF HasKey(d, key) THEN Item(d, key) ELSE default

\* whether iter(v) succeeds: a list, a str and a dict are iterable
IsIterable(v) ==
    v.type \in {"list", "str", "dict"}

\* the elements iter(v) yields: the items of a list, the characters of a
\* str, the keys of a dict
IterItems(v) ==
    CASE v.type = "list" -> v.items
      [] v.type = "str"  -> [i \in 1..Len(v.s) |-> JStr(<<v.s[i]>>)]
      [] v.type = "dict" -> [i \in 1..Len(v.pairs) |-> JStr(v.pairs[i][1])]

\* whether len(v) succeeds
IsSized(v) ==
    v.type \in {"list", "str", "dict"}

\* a variant of startswith that accepts only the prefix itself
startswith_exact(s, prefix) ==
    s = prefix

\* str.startswith: s begins with the characters of prefix
startswith(s, prefix) ==
    /\ Len(prefix) <= Len(s)
    /\ SubSeq(s, 1, Len(prefix)) = prefix

\* a function's outcome: it returned value, or raised an exception
Return(value) ==
    [raised |-> "none", value |-> value]

Raise(exception) ==
    [raised |-> exception, value |-> Unset]

(***************************************************************************)
(* String literals of the source.                                          *)
(***************************************************************************)

k_violations ==
    <<"v", "i", "o", "l", "a", "t", "i", "o", "n", "s">>

k_deny ==
    <<"d", "e", "n", "y">>

k_results ==
    <<"r", "e", "s", "u", "l", "t", "s">>

k_failures ==
    <<"f", "a", "i", "l", "u", "r", "e", "s">>

k_msg ==
    <<"m", "s", "g">>

k_policy ==
    <<"p", "o", "l", "i", "c", "y">>

k_severity ==
    <<"s", "e", "v", "e", "r", "i", "t", "y">>

k_message ==
    <<"m", "e", "s", "s", "a", "g", "e">>

MEDIUM ==
    <<"M", "E", "D", "I", "U", "M">>

No_message ==
    <<"N", "o", " ", "m", "e", "s", "s", "a", "g", "e">>

No_policy_violations_found ==
    <<"N", "o", " ", "p", "o", "l", "i", "c", "y", " ", "v", "i", "o", "l", "a", "t", "i", "o", "n", "s", " ", "f", "o", "u", "n", "d", " ", "f", "o", "r", " ", "t", "h", "i", "s", " ", "c", "o", "n", "t", "r", "o", "l">>

k_resource ==
    <<"r", "e", "s", "o", "u", "r", "c", "e">>

k_remediation ==
    <<"r", "e", "m", "e", "d", "i", "a", "t", "i", "o", "n">>

k_compliance ==
    <<"c", "o", "m", "p", "l", "i", "a", "n", "c", "e">>

unknown ==
    <<"u", "n", "k", "n", "o", "w", "n">>

UNKNOWN ==
    <<"U", "N", "K", "N", "O", "W", "N">>

(***************************************************************************)
(* ComplianceReporter.load_violations                                      *)
(***************************************************************************)

\* the input file does not exist / exists and is not syntactically JSON;
\* any other value of the variable input is the parsed content of the file
FileMissing ==
    [type |-> "missing"]

FileNotJson ==
    [type |-> "notjson"]

\* a variant of FailureMsgs that leaves the loop at the first failure whose
\* "msg" is not a dict
RECURSIVE FailureMsgs_break(_)
FailureMsgs_break(failures) ==
    IF failures = <<>> THEN Return(<<>>)
    ELSE LET failure == Head(failures) IN
         IF ~IsDict(failure) THEN Raise("AttributeError")
         ELSE LET msg == Get(failure, k_msg, JNull) IN
              IF ~IsDict(msg) THEN Return(<<>>)
              ELSE LET rest == FailureMsgs_break(Tail(failures)) IN
                   IF rest.raised # "none" THEN rest
                   ELSE Return(<<msg>> \o rest.value)

\* the inner loop of the conftest branch over one result's failures: the
\* "msg" of every failure whose "msg" is a dict; failure.get raises on a
\* failure that is not a dict
RECURSIVE FailureMsgs(_)
FailureMsgs(failures) ==
    IF failures = <<>> THEN Return(<<>>)
    ELSE LET failure == Head(failures) IN
         IF ~IsDict(failure) THEN Raise("AttributeError")
         ELSE LET msg == Get(failure, k_msg, JNull)
                  rest == FailureMsgs(Tail(failures))
              IN  IF rest.raised # "none" THEN rest
                  ELSE Return((IF IsDict(msg) THEN <<msg>> ELSE <<>>) \o rest.value)

\* the outer loop of the conftest branch over data["results"]: result.get
\* raises on a result that is not a dict, the inner for on "failures" that
\* cannot be iterated
RECURSIVE ResultMsgs(_)
ResultMsgs(rs) ==
    IF rs = <<>> THEN Return(<<>>)
    ELSE LET result == Head(rs) IN
         IF ~IsDict(result) THEN Raise("AttributeError")
         ELSE LET failures == Get(result, k_failures, JList(<<>>)) IN
              IF ~IsIterable(failures) THEN Raise("TypeError")
              ELSE LET first == FailureMsgs(IterItems(failures)) IN
                   IF first.raised # "none" THEN first
                   ELSE LET rest == ResultMsgs(Tail(rs)) IN
                        IF rest.raised # "none" THEN rest
                        ELSE Return(first.value \o rest.value)

\* a variant of dispatch that looks for "deny" before "violations"
dispatch_deny_first(data) ==
    IF IsDict(data) THEN
        IF HasKey(data, k_deny) THEN "deny"
        ELSE IF HasKey(data, k_violations) THEN "violations"
        ELSE IF HasKey(data, k_results) THEN "results"
        ELSE "none"
    ELSE IF IsList(data) THEN "list"
    ELSE "none"

\* the branch the if / elif chain takes for the parsed data
dispatch(data) ==
    IF IsDict(data) THEN
        IF HasKey(data, k_violations) THEN "violations"
        ELSE IF HasKey(data, k_deny) THEN "deny"
        ELSE IF HasKey(data, k_results) THEN "results"
        ELSE "none"
    ELSE IF IsList(data) THEN "list"
    ELSE "none"

\* the body of the try block: open and parse the file, then return what
\* the branch taken returns (list() and the for loops raise on a value that
\* cannot be iterated)
load_violations_try(file) ==
    IF file = FileMissing THEN Raise("FileNotFoundError")
    ELSE IF file = FileNotJson THEN Raise("JSONDecodeError")
    ELSE CASE dispatch(file) = "violations" -> Return(Item(file, k_violations))
           [] dispatch(file) = "deny" ->
                IF IsIterable(Item(file, k_deny))
                THEN Return(JList(IterItems(Item(file, k_deny))))
                ELSE Raise("TypeError")
           [] dispatch(file) = "results" ->
                IF ~IsIterable(Item(file, k_results)) THEN Raise("TypeError")
                ELSE LET msgs == ResultMsgs(IterItems(Item(file, k_results))) IN
                     IF msgs.raised # "none" THEN msgs
                     ELSE Return(JList(msgs.value))
           [] dispatch(file) = "list" -> Return(file)
           [] dispatch(file) = "none" -> Return(JList(<<>>))

\* load_violations: every exception of the try block is caught, reported on
\* the error stream (error) and turned into the empty list
load_violations(file) ==
    LET tried == load_violations_try(file) IN
    IF tried.raised # "none"
    THEN [raised |-> "none", value |-> JList(<<>>), error |-> TRUE]
    ELSE [raised |-> "none", value |-> tried.value, error |-> FALSE]

(***************************************************************************)
(* ComplianceReporter._evaluate_control                                    *)
(***************************************************************************)

\* the characters of a decimal digit
DigitChars ==
    <<"0", "1", "2", "3", "4", "5", "6", "7", "8", "9">>

\* str(n) of an int n >= 0
RECURSIVE IntStr(_)
IntStr(n) ==
    IF n < 10 THEN <<DigitChars[n + 1]>>
    ELSE IntStr(n \div 10) \o <<DigitChars[(n % 10) + 1]>>

\* what an f-string puts for {v}: str(v), for a str, None or an int
format(v) ==
    CASE v.type = "str"  -> v.s
      [] v.type = "null" -> <<"N", "o", "n", "e">>
      [] v.type = "num"  -> IntStr(v.n)

\* f"{v.get('severity', 'MEDIUM')}: {v.get('message', 'No message')}"
finding(v) ==
    format(Get(v, k_severity, JStr(MEDIUM))) \o <<":", " ">>
        \o format(Get(v, k_message, JStr(No_message)))

\* a variant of appended without the break: the violation is appended once
\* for every mapping its policy starts with
RECURSIVE appended_no_break(_, _)
appended_no_break(policy, policy_mappings) ==
    IF policy_mappings = <<>> THEN 0
    ELSE (IF startswith(policy, Head(policy_mappings)) THEN 1 ELSE 0)
            + appended_no_break(policy, Tail(policy_mappings))

\* the inner loop over control["policy_mappings"]: how many times the
\* violation is appended to mapped_violations (the break ends the loop at
\* the first mapping the policy starts with)
RECURSIVE appended(_, _)
appended(policy, policy_mappings) ==
    IF policy_mappings = <<>> THEN 0
    ELSE IF startswith(policy, Head(policy_mappings)) THEN 1
    ELSE appended(policy, Tail(policy_mappings))

\* the loop that collects mapped_violations: violation.get raises on an
\* entry that is not a dict, policy.startswith on a policy that is not a str
RECURSIVE mapped_violations(_, _)
mapped_violations(control, vs) ==
    IF vs = <<>> THEN Return(<<>>)
    ELSE LET violation == Head(vs) IN
         IF ~IsDict(violation) THEN Raise("AttributeError")
         ELSE LET policy == Get(violation, k_policy, JStr(<<>>)) IN
              IF control.policy_mappings # <<>> /\ ~IsStr(policy)
              THEN Raise("AttributeError")
              ELSE LET n == IF control.policy_mappings = <<>> THEN 0
                            ELSE appended(policy.s, control.policy_mappings)
                       rest == mapped_violations(control, Tail(vs))
                   IN  IF rest.raised # "none" THEN rest
                       ELSE Return([i \in 1..n |-> violation] \o rest.value)

\* a variant of status_of with the breakpoint between 3 and 4
status_of_late(count) ==
    IF count = 0 THEN "PASS"
    ELSE IF count <= 3 THEN "PARTIAL"
    ELSE "FAIL"

\* the status and score for a number of mapped violations
status_of(count) ==
    IF count = 0 THEN "PASS"
    ELSE IF count <= 2 THEN "PARTIAL"
    ELSE "FAIL"

\* a variant of score_of with the scores of PARTIAL and FAIL exchanged
score_of_exchanged(count) ==
    IF count = 0 THEN 100
    ELSE IF count <= 2 THEN 25
    ELSE 65

\* a variant of score_of with the breakpoint between 3 and 4
score_of_late(count) ==
    IF count = 0 THEN 100
    ELSE IF count <= 3 THEN 65
    ELSE 25

\* a variant of score_of whose first comparison never holds
score_of_never_full(count) ==
    IF count < 0 THEN 100
    ELSE IF count <= 2 THEN 65
    ELSE 25

score_of(count) ==
    IF count = 0 THEN 100
    ELSE IF count <= 2 THEN 65
    ELSE 25

\* a variant of _evaluate_control that appends the evidence entry before it
\* looks at the number of mapped violations
_evaluate_control_evidence_first(control, vs) ==
    IF ~IsIterable(vs) THEN Raise("TypeError")
    ELSE LET mapped == mapped_violations(control, IterItems(vs)) IN
         IF mapped.raised # "none" THEN mapped
         ELSE Return(
            [control_id |-> control.control_id,
             title |-> control.title,
             description |-> control.description,
             status |-> status_of(Len(mapped.value)),
             score |-> score_of(Len(mapped.value)),
             findings |-> IF Len(mapped.value) = 0 THEN <<>>
                          ELSE [i \in 1..Len(mapped.value) |-> finding(mapped.value[i])],
             evidence |-> <<No_policy_violations_found>>])

_evaluate_control(control, vs) ==
    IF ~IsIterable(vs) THEN Raise("TypeError")
    ELSE LET mapped == mapped_violations(control, IterItems(vs)) IN
         IF mapped.raised # "none" THEN mapped
         ELSE Return(
            [control_id |-> control.control_id,
             title |-> control.title,
             description |-> control.description,
             status |-> status_of(Len(mapped.value)),
             score |-> score_of(Len(mapped.value)),
             findings |-> IF Len(mapped.value) = 0 THEN <<>>
                          ELSE [i \in 1..Len(mapped.value) |-> finding(mapped.value[i])],
             evidence |-> IF Len(mapped.value) = 0
                          THEN <<No_policy_violations_found>>
                          ELSE <<>>])

(***************************************************************************)
(* ComplianceReporter.evaluate_framework                                   *)
(***************************************************************************)

\* sum(c["score"] for c in results["controls"])
RECURSIVE sum_scores(_)
sum_scores(controls) ==
    IF controls = <<>> THEN 0
    ELSE Head(controls).score + sum_scores(Tail(controls))

\* a variant of round1 that cuts the quotient off after the first decimal
round1_truncate(total_score, total_controls) ==
    (total_score * 10) \div total_controls

\* round(total_score / total_controls, 1), in tenths: the nearest tenth.
\* (An exact tie goes to the even tenth; with 3, 5 or 6 controls and scores
\* of 100, 65 and 25 the quotient is never a tie.)
round1(total_score, total_controls) ==
    LET q == (total_score * 10) \div total_controls
        r == (total_score * 10) % total_controls
    IN  IF 2 * r < total_controls THEN q
        ELSE IF 2 * r > total_controls THEN q + 1
        ELSE IF q % 2 = 0 THEN q ELSE q + 1

\* the overall score of the collected control results, in tenths of a
\* percent (the initial 0 is kept for a framework with no controls)
overall_score(controls) ==
    IF Len(controls) > 0
    THEN round1(sum_scores(controls), Len(controls))
    ELSE 0

\* a variant of count_status with an if in place of the elif
count_status_no_elif(res, status) ==
    LET first == IF status = "PASS" THEN [res EXCEPT !.pass_count = @ + 1] ELSE res
    IN  IF status = "PARTIAL" THEN [first EXCEPT !.partial_count = @ + 1]
        ELSE [first EXCEPT !.fail_count = @ + 1]

\* the if / elif / else that counts one control result by its status
count_status(res, status) ==
    IF status = "PASS" THEN [res EXCEPT !.pass_count = @ + 1]
    ELSE IF status = "PARTIAL" THEN [res EXCEPT !.partial_count = @ + 1]
    ELSE [res EXCEPT !.fail_count = @ + 1]

\* the loop over framework["controls"].items(), from the results collected
\* so far
RECURSIVE evaluate_controls(_, _, _)
evaluate_controls(controls, vs, res) ==
    IF controls = <<>> THEN Return(res)
    ELSE LET control_result == _evaluate_control(Head(controls), vs) IN
         IF control_result.raised # "none" THEN control_result
         ELSE evaluate_controls(Tail(controls), vs,
                 count_status(
                     [res EXCEPT !.controls = Append(@, control_result.value)],
                     control_result.value.status))

\* a variant of evaluate_framework that answers an unknown name with an
\* empty result instead of raising
evaluate_framework_lenient(registry, framework_name, vs) ==
    IF framework_name \notin DOMAIN registry
    THEN Return([framework |-> framework_name,
                 description |-> "",
                 controls |-> <<>>,
                 overall_score |-> 0,
                 pass_count |-> 0,
                 partial_count |-> 0,
                 fail_count |-> 0])
    ELSE LET fw == registry[framework_name]
             looped == evaluate_controls(fw.controls, vs,
                          [framework |-> fw.name,
                           description |-> fw.description,
                           controls |-> <<>>,
                           overall_score |-> 0,
                           pass_count |-> 0,
                           partial_count |-> 0,
                           fail_count |-> 0])
         IN  IF looped.raised # "none" THEN looped
             ELSE Return([looped.value EXCEPT
                            !.overall_score = overall_score(looped.value.controls)])

evaluate_framework(registry, framework_name, vs) ==
    IF framework_name \notin DOMAIN registry THEN Raise("ValueError")
    ELSE LET fw == registry[framework_name]
             looped == evaluate_controls(fw.controls, vs,
                          [framework |-> fw.name,
                           description |-> fw.description,
                           controls |-> <<>>,
                           overall_score |-> 0,
                           pass_count |-> 0,
                           partial_count |-> 0,
                           fail_count |-> 0])
         IN  IF looped.raised # "none" THEN looped
             ELSE Return([looped.value EXCEPT
                            !.overall_score = overall_score(looped.value.controls)])


(***************************************************************************)
(* cli.py, the generate command: the extraction of the violations, the     *)
(* report generators and the console summary.                              *)
(***************************************************************************)

\* the violation built from one failure (lines 74-81): failure.get raises
\* on a failure that is not a dict, and .get on a "msg" that is not a dict
cli_violation(failure) ==
    IF ~IsDict(failure) THEN Raise("AttributeError")
    ELSE LET msg == Get(failure, k_msg, JDict(<<>>)) IN
         IF ~IsDict(msg) THEN Raise("AttributeError")
         ELSE Return(JDict(<<
                <<k_policy, Get(msg, k_policy, JStr(unknown))>>,
                <<k_resource, Get(msg, k_resource, JStr(unknown))>>,
                <<k_severity, Get(msg, k_severity, JStr(MEDIUM))>>,
                <<k_message, Get(msg, k_message, JStr(<<>>))>>,
                <<k_remediation, Get(msg, k_remediation, JStr(<<>>))>>,
                <<k_compliance, Get(msg, k_compliance, JStr(<<>>))>> >>))

\* the inner loop over one result's failures
RECURSIVE cli_failures(_)
cli_failures(failures) ==
    IF failures = <<>> THEN Return(<<>>)
    ELSE LET first == cli_violation(Head(failures)) IN
         IF first.raised # "none" THEN first
         ELSE LET rest == cli_failures(Tail(failures)) IN
              IF rest.raised # "none" THEN rest
              ELSE Return(<<first.value>> \o rest.value)

\* the outer loop over data["results"]
RECURSIVE cli_results(_)
cli_results(rs) ==
    IF rs = <<>> THEN Return(<<>>)
    ELSE LET result == Head(rs) IN
         IF ~IsDict(result) THEN Raise("AttributeError")
         ELSE LET failures == Get(result, k_failures, JList(<<>>)) IN
              IF ~IsIterable(failures) THEN Raise("TypeError")
              ELSE LET first == cli_failures(IterItems(failures)) IN
                   IF first.raised # "none" THEN first
                   ELSE LET rest == cli_results(Tail(rs)) IN
                        IF rest.raised # "none" THEN rest
                        ELSE Return(first.value \o rest.value)

\* lines 67-84: the violations of the parsed data; nothing catches what the
\* loops or list() raise
cli_extract(data) ==
    IF IsDict(data) THEN
        IF HasKey(data, k_results) THEN
            IF ~IsIterable(Item(data, k_results)) THEN Raise("TypeError")
            ELSE LET built == cli_results(IterItems(Item(data, k_results))) IN
                 IF built.raised # "none" THEN built
                 ELSE Return(JList(built.value))
        ELSE IF HasKey(data, k_deny) THEN
            IF IsIterable(Item(data, k_deny))
            THEN Return(JList(IterItems(Item(data, k_deny))))
            ELSE Raise("TypeError")
        ELSE Return(JList(<<>>))
    ELSE Return(JList(<<>>))

\* whether hash(v) succeeds (v can be the key of a dict)
hashable(v) ==
    v.type \in {"str", "num", "null"}

\* HTMLReportGenerator._generate_summary and _group_violations: the
\* exception the loop over the violations raises, or "none"
RECURSIVE html_summary_raised(_)
html_summary_raised(vs) ==
    IF vs = <<>> THEN "none"
    ELSE LET violation == Head(vs) IN
         IF ~IsDict(violation) THEN "AttributeError"
         ELSE IF ~hashable(Get(violation, k_severity, JStr(UNKNOWN))) THEN "TypeError"
         ELSE IF ~IsStr(Get(violation, k_policy, JStr(<<>>))) THEN "AttributeError"
         ELSE html_summary_raised(Tail(vs))

\* JSONReportGenerator._generate_summary: the exception the loop over the
\* violations raises, or "none"
RECURSIVE json_summary_raised(_)
json_summary_raised(vs) ==
    IF vs = <<>> THEN "none"
    ELSE LET violation == Head(vs) IN
         IF ~IsDict(violation) THEN "AttributeError"
         ELSE IF ~hashable(Get(violation, k_severity, JStr(UNKNOWN))) THEN "TypeError"
         ELSE IF ~hashable(Get(violation, k_policy, JStr(unknown))) THEN "TypeError"
         ELSE IF ~IsStr(Get(violation, k_policy, JStr(unknown))) THEN "AttributeError"
         ELSE json_summary_raised(Tail(vs))

\* CSVReportGenerator.generate: the exception the loop that writes the rows
\* raises, or "none"
RECURSIVE csv_rows_raised(_)
csv_rows_raised(vs) ==
    IF vs = <<>> THEN "none"
    ELSE IF ~IsDict(Head(vs)) THEN "AttributeError"
    ELSE csv_rows_raised(Tail(vs))

\* generator.generate(violations, metadata) for one format: the exception
\* it raises, or "none"
generate_raised(format_name, vs) ==
    CASE format_name = "html" -> html_summary_raised(vs)
      [] format_name = "json" -> json_summary_raised(vs)
      [] format_name = "csv"  -> csv_rows_raised(vs)

\* the file a generator leaves: its report, or for the CSV generator, which
\* opens the file before it writes the rows, a partial file when a row raises
generate_file(format_name, exception) ==
    IF exception = "none" THEN {format_name}
    ELSE IF format_name = "csv" THEN {"csv (partial)"}
    ELSE {}

\* lines 91-107: the reports of the selected formats, in the order html,
\* json, csv, up to the first generator that raises
RECURSIVE generate_reports(_, _, _)
generate_reports(order, formats, vs) ==
    IF order = <<>> THEN [raised |-> "none", files |-> {}]
    ELSE IF Head(order) \notin formats THEN generate_reports(Tail(order), formats, vs)
    ELSE LET exception == generate_raised(Head(order), vs) IN
         IF exception # "none"
         THEN [raised |-> exception, files |-> generate_file(Head(order), exception)]
         ELSE LET rest == generate_reports(Tail(order), formats, vs) IN
              [raised |-> rest.raised,
               files |-> generate_file(Head(order), "none") \cup rest.files]

\* the severity labels the HTML report knows
HIGH ==
    <<"H", "I", "G", "H">>

CRITICAL ==
    <<"C", "R", "I", "T", "I", "C", "A", "L">>

LOW ==
    <<"L", "O", "W">>

\* d.get(key, 0) of a dict of counters: d is the sequence of its
\* <<key, count>> items in insertion order
count_of(d, key) ==
    IF \E i \in 1..Len(d) : d[i][1] = key
    THEN d[CHOOSE i \in 1..Len(d) : d[i][1] = key][2]
    ELSE 0

\* d[key] = d.get(key, 0) + 1
counted(d, key) ==
    IF \E i \in 1..Len(d) : d[i][1] = key
    THEN [i \in 1..Len(d) |->
            IF d[i][1] = key THEN <<key, d[i][2] + 1>> ELSE d[i]]
    ELSE Append(d, <<key, 1>>)

\* the prefixes "aws." and "azure."
aws_dot ==
    <<"a", "w", "s", ".">>

azure_dot ==
    <<"a", "z", "u", "r", "e", ".">>

\* a variant of json_summary_loop that counts a severity that is none of the
\* four labels under "UNKNOWN"
RECURSIVE json_summary_loop_coerced(_, _)
json_summary_loop_coerced(vs, acc) ==
    IF vs = <<>> THEN acc
    ELSE LET violation == Head(vs)
             given == Get(violation, k_severity, JStr(UNKNOWN))
             severity == IF given \in {JStr(CRITICAL), JStr(HIGH), JStr(MEDIUM), JStr(LOW)}
                         THEN given ELSE JStr(UNKNOWN)
             policy == Get(violation, k_policy, JStr(unknown))
         IN  json_summary_loop_coerced(Tail(vs),
                [acc EXCEPT
                    !.by_severity = counted(@, severity),
                    !.by_policy = counted(@, policy),
                    !.by_cloud = IF startswith(policy.s, aws_dot) THEN counted(@, "AWS")
                                 ELSE IF startswith(policy.s, azure_dot) THEN counted(@, "Azure")
                                 ELSE @])

\* JSONReportGenerator._generate_summary, the loop of lines 63-76 from the
\* counters collected so far (for violations on which it does not raise)
RECURSIVE json_summary_loop(_, _)
json_summary_loop(vs, acc) ==
    IF vs = <<>> THEN acc
    ELSE LET violation == Head(vs)
             severity == Get(violation, k_severity, JStr(UNKNOWN))
             policy == Get(violation, k_policy, JStr(unknown))
         IN  json_summary_loop(Tail(vs),
                [acc EXCEPT
                    !.by_severity = counted(@, severity),
                    !.by_policy = counted(@, policy),
                    !.by_cloud = IF startswith(policy.s, aws_dot) THEN counted(@, "AWS")
                                 ELSE IF startswith(policy.s, azure_dot) THEN counted(@, "Azure")
                                 ELSE @])

\* JSONReportGenerator._generate_summary
json_summary(vs) ==
    IF vs = <<>>
    THEN [total_violations |-> 0, by_severity |-> <<>>, by_policy |-> <<>>, by_cloud |-> <<>>]
    ELSE json_summary_loop(vs,
            [total_violations |-> Len(vs), by_severity |-> <<>>, by_policy |-> <<>>,
             by_cloud |-> <<>>])

\* str.split(sep) for a separator of one character
RECURSIVE split(_, _)
split(s, sep) ==
    IF \A i \in 1..Len(s) : s[i] # sep THEN <<s>>
    ELSE LET first == CHOOSE i \in 1..Len(s) :
                          /\ s[i] = sep
                          /\ \A j \in 1..(i - 1) : s[j] # sep
         IN  <<SubSeq(s, 1, first - 1)>> \o split(SubSeq(s, first + 1, Len(s)), sep)

\* a variant of category_counted that asks for more than one part
category_counted_two_parts(category_counts, policy) ==
    LET parts == split(policy, ".") IN
    IF Len(parts) > 1 THEN counted(category_counts, parts[2])
    ELSE category_counts

\* lines 79-82 and 85-88: the category of the policy is counted when the
\* policy has more than two parts
category_counted(category_counts, policy) ==
    LET parts == split(policy, ".") IN
    IF Len(parts) > 2 THEN counted(category_counts, parts[2])
    ELSE category_counts

\* HTMLReportGenerator._generate_summary, the loop of lines 72-88 from the
\* counters collected so far (for violations on which it does not raise)
RECURSIVE html_summary_loop(_, _)
html_summary_loop(vs, acc) ==
    IF vs = <<>> THEN acc
    ELSE LET violation == Head(vs)
             severity == Get(violation, k_severity, JStr(UNKNOWN))
             policy == Get(violation, k_policy, JStr(<<>>)).s
             cloud == IF startswith(policy, aws_dot) THEN "AWS"
                      ELSE IF startswith(policy, azure_dot) THEN "Azure"
                      ELSE "none"
         IN  html_summary_loop(Tail(vs),
                [severity_counts |-> counted(acc.severity_counts, severity),
                 cloud_counts |-> IF cloud = "none" THEN acc.cloud_counts
                                  ELSE counted(acc.cloud_counts, cloud),
                 category_counts |-> IF cloud = "none" THEN acc.category_counts
                                     ELSE category_counted(acc.category_counts, policy)])

\* HTMLReportGenerator._generate_summary: the summary it returns, with the
\* four severity counters read from severity_counts (lines 90-98)
html_summary(vs) ==
    IF vs = <<>>
    THEN [total |-> 0, critical |-> 0, high |-> 0, medium |-> 0, low |-> 0,
          by_cloud |-> <<>>, by_category |-> <<>>]
    ELSE LET counts == html_summary_loop(vs,
                          [severity_counts |-> << <<JStr(CRITICAL), 0>>, <<JStr(HIGH), 0>>,
                                                  <<JStr(MEDIUM), 0>>, <<JStr(LOW), 0>> >>,
                           cloud_counts |-> <<>>,
                           category_counts |-> <<>>])
         IN  [total |-> Len(vs),
              critical |-> count_of(counts.severity_counts, JStr(CRITICAL)),
              high |-> count_of(counts.severity_counts, JStr(HIGH)),
              medium |-> count_of(counts.severity_counts, JStr(MEDIUM)),
              low |-> count_of(counts.severity_counts, JStr(LOW)),
              by_cloud |-> counts.cloud_counts,
              by_category |-> counts.category_counts]

\* the summaries of the reports the command generates (lines 91-101): a
\* generator is reached when it is selected and none before it raised, and
\* has a summary when its own loop does not raise
report_summaries(formats, vs) ==
    LET html_raised == IF "html" \in formats THEN html_summary_raised(vs) ELSE "none" IN
    [html |-> IF "html" \in formats /\ html_raised = "none"
              THEN html_summary(vs) ELSE Unset,
     json |-> IF "json" \in formats /\ html_raised = "none"
                   /\ json_summary_raised(vs) = "none"
              THEN json_summary(vs) ELSE Unset]

\* the loop of lines 115-117: the exception it raises, or "none"
RECURSIVE severity_counts_raised(_)
severity_counts_raised(vs) ==
    IF vs = <<>> THEN "none"
    ELSE IF ~IsDict(Head(vs)) THEN "AttributeError"
    ELSE IF ~hashable(Get(Head(vs), k_severity, JStr(UNKNOWN))) THEN "TypeError"
    ELSE severity_counts_raised(Tail(vs))

\* lines 113-121, the console summary: sorted() raises when it compares
\* severities of types that have no order (a str with an int, None with
\* anything)
console_summary_raised(vs) ==
    IF vs = <<>> THEN "none"
    ELSE IF severity_counts_raised(vs) # "none" THEN severity_counts_raised(vs)
    ELSE LET keys == {Get(vs[i], k_severity, JStr(UNKNOWN)) : i \in 1..Len(vs)} IN
         IF /\ Cardinality(keys) > 1
            /\ ~(\A k \in keys : k.type = "str")
            /\ ~(\A k \in keys : k.type = "num")
         THEN "TypeError"
         ELSE "none"

\* the order in which the command produces the formats
FormatOrder ==
    <<"html", "json", "csv">>

(***************************************************************************)
(* The registry FRAMEWORK_CONTROLS: framework name -> name, description    *)
(* and the controls in insertion order.                                    *)
(***************************************************************************)

aws_security_iam_mfa ==
    <<"a", "w", "s", ".", "s", "e", "c", "u", "r", "i", "t", "y", ".", "i", "a", "m", "_", "m", "f", "a">>

aws_compliance_sox ==
    <<"a", "w", "s", ".", "c", "o", "m", "p", "l", "i", "a", "n", "c", "e", ".", "s", "o", "x">>

azure_security_key_vault ==
    <<"a", "z", "u", "r", "e", ".", "s", "e", "c", "u", "r", "i", "t", "y", ".", "k", "e", "y", "_", "v", "a", "u", "l", "t">>

aws_security_s3_encryption ==
    <<"a", "w", "s", ".", "s", "e", "c", "u", "r", "i", "t", "y", ".", "s", "3", "_", "e", "n", "c", "r", "y", "p", "t", "i", "o", "n">>

azure_security_storage_encryption ==
    <<"a", "z", "u", "r", "e", ".", "s", "e", "c", "u", "r", "i", "t", "y", ".", "s", "t", "o", "r", "a", "g", "e", "_", "e", "n", "c", "r", "y", "p", "t", "i", "o", "n">>

aws_security_kms_encryption ==
    <<"a", "w", "s", ".", "s", "e", "c", "u", "r", "i", "t", "y", ".", "k", "m", "s", "_", "e", "n", "c", "r", "y", "p", "t", "i", "o", "n">>

aws_tagging_required_tags ==
    <<"a", "w", "s", ".", "t", "a", "g", "g", "i", "n", "g", ".", "r", "e", "q", "u", "i", "r", "e", "d", "_", "t", "a", "g", "s">>

aws_security_ec2_security_groups ==
    <<"a", "w", "s", ".", "s", "e", "c", "u", "r", "i", "t", "y", ".", "e", "c", "2", "_", "s", "e", "c", "u", "r", "i", "t", "y", "_", "g", "r", "o", "u", "p", "s">>

azure_security_network_security ==
    <<"a", "z", "u", "r", "e", ".", "s", "e", "c", "u", "r", "i", "t", "y", ".", "n", "e", "t", "w", "o", "r", "k", "_", "s", "e", "c", "u", "r", "i", "t", "y">>

aws_compliance_pci_dss ==
    <<"a", "w", "s", ".", "c", "o", "m", "p", "l", "i", "a", "n", "c", "e", ".", "p", "c", "i", "_", "d", "s", "s">>

aws_security_s3_public_access ==
    <<"a", "w", "s", ".", "s", "e", "c", "u", "r", "i", "t", "y", ".", "s", "3", "_", "p", "u", "b", "l", "i", "c", "_", "a", "c", "c", "e", "s", "s">>

aws_compliance_ffiec ==
    <<"a", "w", "s", ".", "c", "o", "m", "p", "l", "i", "a", "n", "c", "e", ".", "f", "f", "i", "e", "c">>

aws_compliance_glba ==
    <<"a", "w", "s", ".", "c", "o", "m", "p", "l", "i", "a", "n", "c", "e", ".", "g", "l", "b", "a">>


FRAMEWORK_CONTROLS ==
    ("sox" :> 
        [name |-> "SOX (Sarbanes-Oxley Act)",
        description |-> "Financial reporting integrity and internal controls",
        controls |-> <<
          [control_id |-> "SOX-302",
           title |-> "Management Assessment of Internal Controls",
           description |-> "CEO/CFO certification of internal controls over financial reporting",
           policy_mappings |-> << aws_security_iam_mfa, aws_compliance_sox, azure_security_key_vault >>],
          [control_id |-> "SOX-404",
           title |-> "Internal Control Assessment",
           description |-> "Document and assess effectiveness of internal controls",
           policy_mappings |-> << aws_security_s3_encryption, aws_compliance_sox, azure_security_storage_encryption >>],
          [control_id |-> "SOX-ITGC",
           title |-> "IT General Controls",
           description |-> "IT controls supporting financial reporting systems",
           policy_mappings |-> << aws_security_kms_encryption, aws_compliance_sox, aws_tagging_required_tags >>] >>])
    @@ ("pci" :> 
        [name |-> "PCI DSS",
        description |-> "Payment Card Industry Data Security Standard",
        controls |-> <<
          [control_id |-> "PCI-REQ-1",
           title |-> "Install and Maintain Firewall Configuration",
           description |-> "Protect cardholder data with firewall and router configuration",
           policy_mappings |-> << aws_security_ec2_security_groups, azure_security_network_security >>],
          [control_id |-> "PCI-REQ-2",
           title |-> "Do Not Use Vendor-Supplied Defaults",
           description |-> "Change default passwords and security parameters",
           policy_mappings |-> << aws_compliance_pci_dss >>],
          [control_id |-> "PCI-REQ-3",
           title |-> "Protect Stored Cardholder Data",
           description |-> "Encrypt transmission of cardholder data",
           policy_mappings |-> << aws_security_s3_encryption, aws_security_kms_encryption, azure_security_storage_encryption, aws_compliance_pci_dss >>],
          [control_id |-> "PCI-REQ-7",
           title |-> "Restrict Access by Business Need-to-Know",
           description |-> "Limit access to cardholder data by business need to know",
           policy_mappings |-> << aws_security_s3_public_access, aws_security_iam_mfa, aws_compliance_pci_dss >>],
          [control_id |-> "PCI-REQ-8",
           title |-> "Identify and Authenticate Access",
           description |-> "Assign unique ID to each person with computer access",
           policy_mappings |-> << aws_security_iam_mfa, aws_compliance_pci_dss >>],
          [control_id |-> "PCI-REQ-10",
           title |-> "Track and Monitor Access",
           description |-> "Track and monitor all access to network resources and cardholder data",
           policy_mappings |-> << aws_compliance_pci_dss, aws_compliance_sox >>] >>])
    @@ ("ffiec" :> 
        [name |-> "FFIEC Cybersecurity Assessment",
        description |-> "Federal Financial Institutions Examination Council - Cybersecurity maturity",
        controls |-> <<
          [control_id |-> "FFIEC-D1",
           title |-> "Cyber Risk Management and Oversight",
           description |-> "Establish cybersecurity governance",
           policy_mappings |-> << aws_tagging_required_tags, aws_compliance_ffiec >>],
          [control_id |-> "FFIEC-D2",
           title |-> "Threat Intelligence and Collaboration",
           description |-> "Monitor and respond to cyber threats",
           policy_mappings |-> << aws_compliance_ffiec >>],
          [control_id |-> "FFIEC-D3",
           title |-> "Cybersecurity Controls",
           description |-> "Implement preventative and detective controls",
           policy_mappings |-> << aws_security_s3_encryption, aws_security_kms_encryption, aws_security_ec2_security_groups, azure_security_storage_encryption, azure_security_network_security, aws_compliance_ffiec >>],
          [control_id |-> "FFIEC-D4",
           title |-> "External Dependency Management",
           description |-> "Manage third-party and supply chain risks",
           policy_mappings |-> << aws_compliance_ffiec >>],
          [control_id |-> "FFIEC-D5",
           title |-> "Cyber Incident Management and Resilience",
           description |-> "Detect, respond, and recover from incidents",
           policy_mappings |-> << aws_compliance_ffiec >>] >>])
    @@ ("glba" :> 
        [name |-> "GLBA",
        description |-> "Gramm-Leach-Bliley Act - Financial privacy and consumer data protection (Updated for 2023 FTC Final Rule and 2024 Breach Notification Rule)",
        controls |-> <<
          [control_id |-> "GLBA-SAFEGUARDS",
           title |-> "Safeguards Rule - Data Protection",
           description |-> "Administrative, technical, and physical safeguards to protect nonpublic personal information (NPI)",
           policy_mappings |-> << aws_compliance_glba, aws_security_s3_encryption, aws_security_kms_encryption, azure_security_storage_encryption >>],
          [control_id |-> "GLBA-ACCESS",
           title |-> "Access Control - Limit NPI Access",
           description |-> "Limit access to customer information to authorized personnel only",
           policy_mappings |-> << aws_compliance_glba, aws_security_s3_public_access, aws_security_iam_mfa, aws_security_ec2_security_groups, azure_security_key_vault, azure_security_network_security >>],
          [control_id |-> "GLBA-MONITORING",
           title |-> "Security Monitoring - Continuous Oversight",
           description |-> "Monitor systems, detect unauthorized access, and adapt to emerging threats",
           policy_mappings |-> << aws_compliance_glba, aws_compliance_sox, aws_compliance_ffiec >>],
          [control_id |-> "GLBA-VENDOR",
           title |-> "Third-Party Oversight - Cloud/Hybrid Security",
           description |-> "Ensure cloud service providers maintain adequate data protection controls",
           policy_mappings |-> << aws_compliance_glba, aws_tagging_required_tags >>],
          [control_id |-> "GLBA-BREACH",
           title |-> "Breach Notification - 30-Day Requirement",
           description |-> "Report data breaches affecting 500+ customers within 30 days (2024 FTC Rule)",
           policy_mappings |-> << aws_compliance_glba, aws_compliance_sox >>] >>])

\* The registry of a host that has extended the table (self.frameworks is an
\* attribute of the reporter) with a framework that has no controls yet and
\* with one whose control maps a prefix and a continuation of that prefix.
ExtendedControls ==
    FRAMEWORK_CONTROLS
    @@ ("future" :>
        [name |-> "Future",
         description |-> "A framework with no controls",
         controls |-> <<>>])
    @@ ("layered" :>
        [name |-> "Layered",
         description |-> "A framework with overlapping mappings",
         controls |-> <<
          [control_id |-> "LAYERED-1",
           title |-> "Layered",
           description |-> "A control with overlapping mappings",
           policy_mappings |-> << SubSeq(aws_compliance_sox, 1, 14), aws_compliance_sox >>] >>])

\* the choices of --framework and the order of the batch loop
FrameworkChoices ==
    {"sox", "pci", "ffiec", "glba", "all"}

BatchOrder ==
    <<"sox", "pci", "ffiec", "glba">>

\* the values of --framework a user types: the choices, and a registered
\* name in other letter cases
FrameworkArgs ==
    FrameworkChoices \cup {"SOX", "Sox"}

(***************************************************************************)
(* Inputs: the violation entries and the input files the runs draw from.   *)
(***************************************************************************)

\* the longest violation list of an input file
MaxViolations ==
    3

\* {"policy": "aws.security.s3_encryption", "severity": "HIGH", "message": "m"}
EntryS3 ==
    JDict(<< <<k_policy, JStr(aws_security_s3_encryption)>>,
             <<k_severity, JStr(HIGH)>>,
             <<k_message, JStr(<<"m">>)>> >>)

\* {"policy": "aws.compliance.sox"}: a mapping of every SOX control
EntrySox ==
    JDict(<< <<k_policy, JStr(aws_compliance_sox)>> >>)

\* {"policy": "aws.compliance.sox_x"}: a policy that continues a mapping
EntrySoxLonger ==
    JDict(<< <<k_policy, JStr(aws_compliance_sox \o <<"_", "x">>)>> >>)

\* {"policy": "Aws.compliance.sox"}: a mapping in another letter case
EntrySoxUpper ==
    JDict(<< <<k_policy, JStr(<<"A">> \o Tail(aws_compliance_sox))>> >>)

\* {"policy": "aws.compliance"}: a policy that a mapping continues
EntrySoxShorter ==
    JDict(<< <<k_policy, JStr(SubSeq(aws_compliance_sox, 1, 14))>> >>)

\* {}: every field is missing
EntryEmpty ==
    JDict(<<>>)

\* {"policy": null}
EntryNullPolicy ==
    JDict(<< <<k_policy, JNull>> >>)

\* 5: an entry that is not a mapping
EntryNumber ==
    JNum(5)

Entries ==
    {EntryS3, EntrySox, EntrySoxLonger, EntrySoxUpper, EntrySoxShorter,
     EntryEmpty, EntryNullPolicy, EntryNumber}

\* the sequences over S of length at most n
SeqsUpTo(S, n) ==
    UNION {[1..k -> S] : k \in 0..n}

\* a top-level JSON array of at most MaxViolations entries
ListFiles ==
    {JList(s) : s \in SeqsUpTo(Entries, MaxViolations)}

\* a conftest document: two results, the first with a failure whose "msg" is
\* a mapping and one whose "msg" is a text, the second with one failure
ConftestResults ==
    JList(<<
        JDict(<< <<k_failures, JList(<<
            JDict(<< <<k_msg, EntryS3>> >>),
            JDict(<< <<k_msg, JStr(<<"t">>)>> >>) >>)>> >>),
        JDict(<< <<k_failures, JList(<<
            JDict(<< <<k_msg, EntrySox>> >>) >>)>> >>) >>)

\* JSON documents of the other shapes: the wrappers, alone and together,
\* with well-formed and malformed values, and documents of no known shape
ShapeFiles ==
    {JDict(<< <<k_violations, JList(<<EntryS3>>)>> >>),
     JDict(<< <<k_violations, JNum(5)>> >>),
     JDict(<< <<k_violations, JNull>> >>),
     JDict(<< <<k_results, ConftestResults>>,
              <<k_deny, JList(<<EntrySox>>)>>,
              <<k_violations, JList(<<EntryS3, EntryS3>>)>> >>),
     JDict(<< <<k_deny, JList(<<EntrySox, EntryS3>>)>> >>),
     JDict(<< <<k_results, ConftestResults>>,
              <<k_deny, JList(<<EntrySox>>)>> >>),
     JDict(<< <<k_deny, JNum(5)>> >>),
     JDict(<< <<k_deny, JStr(<<"a", "b">>)>> >>),
     JDict(<< <<k_results, ConftestResults>> >>),
     JDict(<< <<k_results, JList(<<JDict(<<>>)>>)>> >>),
     JDict(<< <<k_results, JNum(5)>> >>),
     JDict(<< <<k_results, JList(<<JNum(5)>>)>> >>),
     JDict(<< <<k_results, JList(<<
         JDict(<< <<k_failures, JList(<<
             JDict(<< <<k_msg, EntryS3>> >>), JNum(5) >>)>> >>) >>)>> >>),
     JDict(<< <<k_message, JStr(<<"m">>)>> >>),
     JDict(<<>>),
     JNum(5),
     JStr(<<"a">>),
     JNull}

\* the failures of a conftest result: with a "msg" that is a mapping, a
\* text or null, and without "msg"
ConftestFailures ==
    {JDict(<< <<k_msg, EntryS3>> >>),
     JDict(<< <<k_msg, EntrySox>> >>),
     JDict(<< <<k_msg, JStr(<<"t">>)>> >>),
     JDict(<< <<k_msg, JNull>> >>),
     JDict(<<>>)}

\* conftest documents with one result of at most MaxViolations failures
ConftestFiles ==
    {JDict(<< <<k_results, JList(<< JDict(<< <<k_failures, JList(s)>> >>) >>)>> >>) :
        s \in SeqsUpTo(ConftestFailures, MaxViolations)}

\* the states of the input file
InputFiles ==
    {FileMissing, FileNotJson} \cup ListFiles \cup ShapeFiles \cup ConftestFiles

\* the entries of the lists a library caller passes: violations that match
\* registered and added controls, and one that is not a mapping
CallEntries ==
    {EntryS3, EntrySox, EntrySoxShorter, EntryNumber}

\* the input files of a library call
CallFiles ==
    {FileMissing, FileNotJson} \cup ShapeFiles \cup ConftestFiles
        \cup {JList(s) : s \in SeqsUpTo(CallEntries, MaxViolations)}

\* the framework names a library caller passes to generate_report
CallNames ==
    {"sox", "SOX", "hipaa", "future", "layered"}

\* {"policy": "azure.security.key_vault", "severity": "CRITICAL"}
EntryAzure ==
    JDict(<< <<k_policy, JStr(azure_security_key_vault)>>,
             <<k_severity, JStr(CRITICAL)>> >>)

\* {"policy": "aws.compliance", "severity": "INFO"}: a policy of two parts
\* and a severity that is none of the four labels
EntryInfo ==
    JDict(<< <<k_policy, JStr(SubSeq(aws_compliance_sox, 1, 14))>>,
             <<k_severity, JStr(<<"I", "N", "F", "O">>)>> >>)

\* the entries of the "deny" documents given to the generate command
DenyEntries ==
    {EntryS3, EntryAzure, EntryInfo, EntrySoxUpper, EntryEmpty, EntryNumber}

\* the input files of the generate command
CliFiles ==
    {FileMissing, FileNotJson} \cup ShapeFiles
        \cup {JDict(<< <<k_deny, JList(s)>> >>) : s \in SeqsUpTo(DenyEntries, MaxViolations)}
        \cup ConftestFiles

\* the sets of formats -f selects
FormatChoices ==
    {{"html"}, {"json"}, {"csv"}, {"html", "json", "csv"}}

(***************************************************************************)
(* The runs.                                                               *)
(***************************************************************************)

Init ==
    /\ frameworks \in {FRAMEWORK_CONTROLS, ExtendedControls}
    /\ request = [kind |-> "none", framework |-> "none", formats |-> {}]
    /\ input = Unset
    /\ pc = "idle"
    /\ framework = "none"
    /\ queue = <<>>
    /\ violations = Unset
    /\ results = Unset
    /\ written = {}
    /\ stderr = {}
    /\ exited = FALSE
    /\ exit_code = 0
    /\ raised = "none"
    /\ summary = [html |-> Unset, json |-> Unset]

\* An exception leaves generate_report: nothing catches it, neither in
\* generate_report nor in main, where it ends the process with a traceback
\* and exit code 1.
Propagate(exception, err) ==
    /\ raised' = exception
    /\ pc' = "done"
    /\ exited' = (request.kind = "main")
    /\ exit_code' = IF request.kind = "main" THEN 1 ELSE exit_code
    /\ stderr' = IF request.kind = "main" THEN err \cup {"Traceback"} ELSE err

\* main(): parse the arguments (argparse ends the process with exit code 2
\* when --framework is none of the choices, compared as written), check that
\* the input exists, construct the reporter and start the single report or
\* the batch loop
Main(choice, file) ==
    /\ pc = "idle"
    /\ request' = [kind |-> "main", framework |-> choice, formats |-> {}]
    /\ input' = file
    /\ IF choice \notin FrameworkChoices
       THEN /\ stderr' = stderr \cup {"error: argument --framework: invalid choice"}
            /\ exited' = TRUE
            /\ exit_code' = 2
            /\ pc' = "done"
            /\ UNCHANGED <<frameworks, framework, queue>>
       ELSE IF file = FileMissing
       THEN /\ stderr' = stderr \cup {"Error: Input file not found"}
            /\ exited' = TRUE
            /\ exit_code' = 1
            /\ pc' = "done"
            /\ UNCHANGED <<frameworks, framework, queue>>
       ELSE /\ frameworks' = FRAMEWORK_CONTROLS
            /\ framework' = IF choice = "all" THEN Head(BatchOrder) ELSE choice
            /\ queue' = IF choice = "all" THEN Tail(BatchOrder) ELSE <<>>
            /\ pc' = "load"
            /\ UNCHANGED <<stderr, exited, exit_code>>
    /\ UNCHANGED <<summary, violations, results, written, raised>>

\* a library caller calls reporter.generate_report(name, file, output)
GenerateReportCall(name, file) ==
    /\ pc = "idle"
    /\ request' = [kind |-> "generate_report", framework |-> name, formats |-> {}]
    /\ input' = file
    /\ framework' = name
    /\ queue' = <<>>
    /\ pc' = "load"
    /\ UNCHANGED <<summary, frameworks, violations, results, written, stderr, exited,
                   exit_code, raised>>

\* generate_report, lines 628-629: load the violations and print how many
LoadViolations ==
    /\ pc = "load"
    /\ LET loaded == load_violations(input)
           err == IF loaded.error
                  THEN stderr \cup {"Error loading violations"}
                  ELSE stderr
       IN  /\ violations' = loaded.value
           /\ IF IsSized(loaded.value)
              THEN /\ pc' = "evaluate"
                   /\ stderr' = err
                   /\ UNCHANGED <<exited, exit_code, raised>>
              ELSE Propagate("TypeError", err)
    /\ UNCHANGED <<summary, frameworks, request, input, framework, queue, results, written>>

\* a variant of EvaluateFramework whose results dict outlives the call: the
\* control results of a call are appended to those of the call before
EvaluateFramework_shared_results ==
    /\ pc = "evaluate"
    /\ LET evaluated == evaluate_framework(frameworks, framework, violations) IN
       IF evaluated.raised = "none"
       THEN /\ results' = IF results = Unset THEN evaluated.value
                          ELSE [evaluated.value EXCEPT !.controls = results.controls \o @]
            /\ pc' = "write"
            /\ UNCHANGED <<stderr, exited, exit_code, raised>>
       ELSE /\ Propagate(evaluated.raised, stderr)
            /\ UNCHANGED results
    /\ UNCHANGED <<summary, frameworks, request, input, framework, queue, violations, written>>

\* generate_report, lines 631-635: evaluate the framework
EvaluateFramework ==
    /\ pc = "evaluate"
    /\ LET evaluated == evaluate_framework(frameworks, framework, violations) IN
       IF evaluated.raised = "none"
       THEN /\ results' = evaluated.value
            /\ pc' = "write"
            /\ UNCHANGED <<stderr, exited, exit_code, raised>>
       ELSE /\ Propagate(evaluated.raised, stderr)
            /\ UNCHANGED results
    /\ UNCHANGED <<summary, frameworks, request, input, framework, queue, violations, written>>

\* generate_report, line 637: write the HTML report; then the call returns,
\* to the next framework of the batch or to the end of the run.  Opening
\* the output file may fail.
GenerateHtmlReport ==
    /\ pc = "write"
    /\ \/ /\ written' = written \cup {framework}
          /\ IF queue # <<>>
             THEN /\ framework' = Head(queue)
                  /\ queue' = Tail(queue)
                  /\ pc' = "load"
                  /\ UNCHANGED <<exited, exit_code>>
             ELSE /\ pc' = "done"
                  /\ exited' = (request.kind = "main")
                  /\ exit_code' = 0
                  /\ UNCHANGED <<framework, queue>>
          /\ UNCHANGED <<stderr, raised>>
       \/ /\ Propagate("OSError", stderr)
          /\ UNCHANGED <<written, framework, queue>>
    /\ UNCHANGED <<summary, frameworks, request, input, violations, results>>

\* An exception leaves the generate command: the process ends with a
\* traceback and exit code 1.
CliAbort(exception) ==
    /\ raised' = exception
    /\ pc' = "done"
    /\ exited' = TRUE
    /\ exit_code' = 1
    /\ stderr' = stderr \cup {"Traceback"}

\* generate, lines 22-65: click checks that the input path exists (a usage
\* error, exit code 2), then the file is read and parsed (exit code 1 when
\* that fails)
CliGenerate(file, formats) ==
    /\ pc = "idle"
    /\ request' = [kind |-> "cli_generate", framework |-> "none", formats |-> formats]
    /\ input' = file
    /\ IF file = FileMissing
       THEN /\ stderr' = stderr \cup {"Error: Invalid value for '--input'"}
            /\ exited' = TRUE
            /\ exit_code' = 2
            /\ pc' = "done"
       ELSE IF file = FileNotJson
       THEN /\ stderr' = stderr \cup {"Error: Invalid JSON in input file"}
            /\ exited' = TRUE
            /\ exit_code' = 1
            /\ pc' = "done"
       ELSE /\ pc' = "cli_extract"
            /\ UNCHANGED <<stderr, exited, exit_code>>
    /\ UNCHANGED <<summary, frameworks, framework, queue, violations, results, written, raised>>

\* generate, lines 67-86: extract the violations
CliExtract ==
    /\ pc = "cli_extract"
    /\ LET extracted == cli_extract(input) IN
       IF extracted.raised = "none"
       THEN /\ violations' = extracted.value
            /\ pc' = "cli_reports"
            /\ UNCHANGED <<stderr, exited, exit_code, raised>>
       ELSE /\ CliAbort(extracted.raised)
            /\ UNCHANGED violations
    /\ UNCHANGED <<summary, frameworks, request, input, framework, queue, results, written>>

\* generate, lines 88-121: the reports of the selected formats, then the
\* console summary
CliReports ==
    /\ pc = "cli_reports"
    /\ LET reports == generate_reports(FormatOrder, request.formats, violations.items)
           console == console_summary_raised(violations.items)
       IN  /\ written' = written \cup reports.files
           /\ summary' = report_summaries(request.formats, violations.items)
           /\ IF reports.raised # "none" THEN CliAbort(reports.raised)
              ELSE IF console # "none" THEN CliAbort(console)
              ELSE /\ pc' = "done"
                   /\ exited' = TRUE
                   /\ exit_code' = 0
                   /\ UNCHANGED <<stderr, raised>>
    /\ UNCHANGED <<frameworks, request, input, framework, queue, violations, results>>

Next ==
    \/ /\ pc = "idle"
       /\ \E choice \in FrameworkArgs, file \in InputFiles : Main(choice, file)
    \/ /\ pc = "idle"
       /\ \E name \in CallNames, file \in CallFiles : GenerateReportCall(name, file)
    \/ LoadViolations
    \/ EvaluateFramework
    \/ GenerateHtmlReport
    \/ /\ pc = "idle"
       /\ \E file \in CliFiles, formats \in FormatChoices : CliGenerate(file, formats)
    \/ CliExtract
    \/ CliReports

Spec ==
    Init /\ [][Next]_vars

(***************************************************************************)
(* Calls of evaluate_framework on violation lists that grow and are        *)
(* reordered: a library caller evaluates a registered framework against    *)
(* the empty list, then against the list with one more violation put in    *)
(* at any place, or with two neighbours exchanged.                         *)
(***************************************************************************)

\* {"policy": "aws.compliance.pci_dss"} and {"policy": "aws.compliance.ffiec"}
EntryPci ==
    JDict(<< <<k_policy, JStr(aws_compliance_pci_dss)>> >>)

EntryFfiec ==
    JDict(<< <<k_policy, JStr(aws_compliance_ffiec)>> >>)

\* the violations the lists are built from
EvaluateEntries ==
    {EntryS3, EntrySox, EntryPci, EntryFfiec, EntryAzure, EntryEmpty, EntryNullPolicy}

\* the registered framework names
RegisteredNames ==
    {"sox", "pci", "ffiec", "glba"}

\* the list s with v put in at place k
InsertAt(s, k, v) ==
    SubSeq(s, 1, k - 1) \o <<v>> \o SubSeq(s, k, Len(s))

\* the list s with the entries at k and k + 1 exchanged
SwapAt(s, k) ==
    [i \in 1..Len(s) |-> IF i = k THEN s[k + 1] ELSE IF i = k + 1 THEN s[k] ELSE s[i]]

InitEvaluate ==
    /\ frameworks = FRAMEWORK_CONTROLS
    /\ framework \in RegisteredNames
    /\ request = [kind |-> "evaluate_framework", framework |-> framework, formats |-> {}]
    /\ input = Unset
    /\ pc = "evaluated"
    /\ queue = <<>>
    /\ violations = JList(<<>>)
    /\ results = evaluate_framework(FRAMEWORK_CONTROLS, framework, JList(<<>>)).value
    /\ written = {}
    /\ stderr = {}
    /\ exited = FALSE
    /\ exit_code = 0
    /\ raised = "none"
    /\ summary = [html |-> Unset, json |-> Unset]

\* evaluate_framework(framework, vs): the result is kept, or the exception
\* reaches the caller
EvaluateCall(vs) ==
    /\ pc = "evaluated"
    /\ violations' = vs
    /\ LET evaluated == evaluate_framework(frameworks, framework, vs) IN
       IF evaluated.raised = "none"
       THEN /\ results' = evaluated.value
            /\ UNCHANGED <<pc, raised>>
       ELSE /\ raised' = evaluated.raised
            /\ pc' = "done"
            /\ UNCHANGED results
    /\ UNCHANGED <<summary, frameworks, request, input, framework, queue, written,
                   stderr, exited, exit_code>>

\* the next call has one more violation, at place k
EvaluateExtended(v, k) ==
    /\ Len(violations.items) < MaxViolations
    /\ EvaluateCall(JList(InsertAt(violations.items, k, v)))

\* the next call has the violations at k and k + 1 exchanged
EvaluatePermuted(k) ==
    /\ violations.items[k] # violations.items[k + 1]
    /\ EvaluateCall(JList(SwapAt(violations.items, k)))

NextEvaluate ==
    \/ /\ pc = "evaluated"
       /\ \E v \in EvaluateEntries, k \in 1..(Len(violations.items) + 1) :
             EvaluateExtended(v, k)
    \/ /\ pc = "evaluated"
       /\ \E k \in 1..(Len(violations.items) - 1) : EvaluatePermuted(k)

SpecEvaluate ==
    InitEvaluate /\ [][NextEvaluate]_vars

(***************************************************************************)
(* Properties.                                                             *)
(***************************************************************************)

\* the registered name whose evaluation the variable results holds
EvaluatedNames ==
    {f \in DOMAIN frameworks : frameworks[f].name = results.framework}

\* the policy of a violation entry: the empty string when the field is missing
PolicyOf(v) ==
    IF \E i \in 1..Len(v.pairs) : v.pairs[i][1] = k_policy
    THEN Item(v, k_policy).s
    ELSE <<>>

\* the policy begins, character by character, with one of the control's prefixes
Matches(control, v) ==
    LET policy == PolicyOf(v) IN
    \E k \in 1..Len(control.policy_mappings) :
        LET m == control.policy_mappings[k] IN
        /\ Len(m) <= Len(policy)
        /\ \A c \in 1..Len(m) : policy[c] = m[c]

\* the number of loaded violations that match the control
MatchCount(control) ==
    Cardinality({j \in 1..Len(violations.items) : Matches(control, violations.items[j])})

RECURSIVE SumTo(_, _)
SumTo(controls, n) ==
    IF n = 0 THEN 0 ELSE controls[n].score + SumTo(controls, n - 1)

\* C1: whenever evaluate_framework has returned a result for a registered
\* framework, pass_count + partial_count + fail_count equals the number of
\* controls of the framework and the length of the returned controls list.
C1_CountsSumToControls ==
    results # Unset =>
        \A f \in EvaluatedNames :
            /\ results.pass_count + results.partial_count + results.fail_count
                   = Len(frameworks[f].controls)
            /\ Len(results.controls) = Len(frameworks[f].controls)

\* a result with controls in more than one status
C1_Witness ==
    /\ results # Unset
    /\ results.partial_count > 0
    /\ results.fail_count > 0

\* C2: with n the number of violations matching a control, its result is
\* PASS / 100 for n = 0, PARTIAL / 65 for n = 1 or 2 and FAIL / 25 for n >= 3.
C2_Thresholds ==
    results # Unset =>
        \A f \in EvaluatedNames : \A i \in 1..Len(results.controls) :
            LET n == MatchCount(frameworks[f].controls[i])
                r == results.controls[i]
            IN  /\ n = 0 => r.status = "PASS" /\ r.score = 100
                /\ n \in {1, 2} => r.status = "PARTIAL" /\ r.score = 65
                /\ n >= 3 => r.status = "FAIL" /\ r.score = 25

\* one control with exactly two matches beside one with exactly three
C2_Witness ==
    /\ results # Unset
    /\ \E f \in EvaluatedNames : \E i, j \in 1..Len(results.controls) :
          /\ MatchCount(frameworks[f].controls[i]) = 2
          /\ results.controls[i].status = "PARTIAL"
          /\ MatchCount(frameworks[f].controls[j]) = 3
          /\ results.controls[j].status = "FAIL"

\* C3: overall_score (in tenths) lies in [0, 100] and is the tenth nearest
\* to the mean of the control scores; for a framework with no controls it
\* is 0.
C3_OverallScore ==
    results # Unset =>
        LET n == Len(results.controls)
            total == SumTo(results.controls, n)
            d == results.overall_score * n - 10 * total
        IN  /\ 0 <= results.overall_score
            /\ results.overall_score <= 1000
            /\ n = 0 => results.overall_score = 0
            /\ n > 0 => 2 * d <= n /\ 2 * (0 - d) <= n

\* a mean that is rounded up to the next tenth
C3_Witness ==
    /\ results # Unset
    /\ Len(results.controls) > 0
    /\ results.overall_score * Len(results.controls)
           > 10 * SumTo(results.controls, Len(results.controls))

\* the evaluation of a framework that has no controls
C3_WitnessNoControls ==
    /\ results # Unset
    /\ Len(results.controls) = 0
    /\ Len(violations.items) > 0

\* C4: a control's findings are those of exactly the violations whose policy
\* (the empty string when missing) starts, case-sensitively, with one of the
\* control's own prefixes, whatever the other controls count.
C4_PrefixMatching ==
    results # Unset =>
        \A f \in EvaluatedNames : \A i \in 1..Len(results.controls) :
            LET matched == SelectSeq(violations.items,
                               LAMBDA v : Matches(frameworks[f].controls[i], v))
            IN  results.controls[i].findings
                    = [j \in 1..Len(matched) |-> finding(matched[j])]

\* one violation counted for two controls, beside violations whose policy
\* differs from a prefix in letter case or is shorter than it and that are
\* counted for none
C4_Witness ==
    /\ results # Unset
    /\ violations = JList(<<EntrySoxUpper, EntrySoxLonger, EntrySoxShorter>>)
    /\ \E i, j \in 1..Len(results.controls) :
          /\ i # j
          /\ Len(results.controls[i].findings) = 1
          /\ Len(results.controls[j].findings) = 1

\* the run is one of the compliance reporter (main or generate_report)
ReporterRun ==
    request.kind \in {"main", "generate_report"}

\* the input file cannot be read as JSON
InputError ==
    input \in {FileMissing, FileNotJson}

\* C5: when the input file is missing or is not JSON, the run (main of the
\* compliance reporter, or the generate command) writes no report and ends
\* with the error reported and a non-zero exit code.
C5_InputErrorIsFatal ==
    (request.kind \in {"main", "cli_generate"} /\ InputError) =>
        /\ written = {}
        /\ pc = "done" => exited /\ exit_code # 0 /\ stderr # {}

\* the part of C5 the code keeps: the generate command on either input
\* error, and main on a missing file
C5_FatalWhereChecked ==
    (/\ InputError
     /\ \/ request.kind = "cli_generate"
        \/ request.kind = "main" /\ input = FileMissing) =>
        /\ written = {}
        /\ pc = "done"
        /\ exited /\ exit_code # 0 /\ stderr # {}

\* generate_report has been called with a name that is no key of the registry
UnknownFrameworkCall ==
    /\ ReporterRun
    /\ framework # "none"
    /\ framework \notin DOMAIN frameworks

\* C6: generate_report with a name that is no key of the registry never
\* reaches generate_html_report and writes nothing; the call ends with an
\* exception, the unknown-framework ValueError whenever evaluate_framework
\* was reached.
C6_UnknownFramework ==
    UnknownFrameworkCall =>
        /\ written = {}
        /\ results = Unset
        /\ pc # "write"
        /\ pc = "done" =>
              /\ raised # "none"
              /\ IsSized(violations) => raised = "ValueError"

\* the call for "hipaa" with a non-empty violation list has ended
C6_Witness ==
    /\ pc = "done"
    /\ request.kind = "generate_report"
    /\ framework = "hipaa"
    /\ violations # Unset
    /\ IsList(violations)
    /\ Len(violations.items) > 0
    /\ raised = "ValueError"

\* C7: when a batch run (--framework all) ends after the report of one
\* framework failed, the report of every other framework is written.
C7_BatchIsolation ==
    (/\ pc = "done"
     /\ request.kind = "main"
     /\ request.framework = "all"
     /\ raised # "none") =>
        \A i \in 1..Len(BatchOrder) :
            BatchOrder[i] # framework => BatchOrder[i] \in written

\* the value of key in the parsed input, for an input that is a mapping
\* with that key
InputHas(key) ==
    /\ input.type = "dict"
    /\ \E i \in 1..Len(input.pairs) : input.pairs[i][1] = key

InputValue(key) ==
    input.pairs[CHOOSE i \in 1..Len(input.pairs) : input.pairs[i][1] = key][2]

\* the value of key in the mapping d, or absent
FieldOf(d, key) ==
    IF \E i \in 1..Len(d.pairs) : d.pairs[i][1] = key
    THEN d.pairs[CHOOSE i \in 1..Len(d.pairs) : d.pairs[i][1] = key][2]
    ELSE Unset

\* a conftest "results" value of the documented form: an array of mappings
\* whose "failures", when present, is an array of mappings
WellFormedResults(rs) ==
    /\ rs.type = "list"
    /\ \A r \in 1..Len(rs.items) :
          /\ rs.items[r].type = "dict"
          /\ LET fs == FieldOf(rs.items[r], k_failures) IN
             fs # Unset =>
                /\ fs.type = "list"
                /\ \A j \in 1..Len(fs.items) : fs.items[j].type = "dict"

\* the places <<r, j>> of the failures whose "msg" is a mapping
MsgPlaces(rs) ==
    UNION {
        IF FieldOf(rs.items[r], k_failures) = Unset THEN {}
        ELSE {<<r, j>> : j \in
                {j \in 1..Len(FieldOf(rs.items[r], k_failures).items) :
                    FieldOf(FieldOf(rs.items[r], k_failures).items[j], k_msg).type = "dict"}}
        : r \in 1..Len(rs.items)}

\* items is the sequence of those "msg" values, in the order of the places
IsExtractionOf(items, rs) ==
    /\ Len(items) = Cardinality(MsgPlaces(rs))
    /\ \A n \in 1..Len(items) :
          \E p \in MsgPlaces(rs) :
              /\ items[n] = FieldOf(FieldOf(rs.items[p[1]], k_failures).items[p[2]], k_msg)
              /\ Cardinality({q \in MsgPlaces(rs) :
                     q[1] < p[1] \/ (q[1] = p[1] /\ q[2] < p[2])}) = n - 1

\* C8: load_violations returns the value of "violations" whenever the key is
\* present; else the "deny" array; else the failures extracted from
\* "results"; else a top-level array itself; else the empty list.
C8_DispatchPriority ==
    (ReporterRun /\ violations # Unset /\ ~InputError) =>
        /\ InputHas(k_violations) => violations = InputValue(k_violations)
        /\ (/\ ~InputHas(k_violations)
            /\ InputHas(k_deny)
            /\ InputValue(k_deny).type = "list") => violations = InputValue(k_deny)
        /\ (/\ ~InputHas(k_violations)
            /\ ~InputHas(k_deny)
            /\ InputHas(k_results)
            /\ WellFormedResults(InputValue(k_results))) =>
               /\ violations.type = "list"
               /\ IsExtractionOf(violations.items, InputValue(k_results))
        /\ input.type = "list" => violations = input
        /\ (/\ input.type # "list"
            /\ ~InputHas(k_violations)
            /\ ~InputHas(k_deny)
            /\ ~InputHas(k_results)) => violations = JList(<<>>)

\* an input with all three keys has been loaded
C8_Witness ==
    /\ ReporterRun
    /\ violations # Unset
    /\ ~InputError
    /\ InputHas(k_violations) /\ InputHas(k_deny) /\ InputHas(k_results)
    /\ violations = JList(<<EntryS3, EntryS3>>)

\* an input with "deny" and "results" has been loaded
C8_WitnessDeny ==
    /\ ReporterRun
    /\ violations # Unset
    /\ ~InputError
    /\ ~InputHas(k_violations) /\ InputHas(k_deny) /\ InputHas(k_results)
    /\ violations = JList(<<EntrySox>>)

\* a conftest document has been loaded
C8_WitnessResults ==
    /\ ReporterRun
    /\ violations # Unset
    /\ ~InputError
    /\ ~InputHas(k_violations) /\ ~InputHas(k_deny) /\ InputHas(k_results)
    /\ violations = JList(<<EntryS3, EntrySox>>)

\* C9: for every parsed input load_violations returns a sequence, the empty
\* one for an input of no recognised shape.
C9_ReturnsSequence ==
    (ReporterRun /\ violations # Unset /\ ~InputError) =>
        /\ violations.type = "list"
        /\ (/\ input.type # "list"
            /\ ~InputHas(k_violations)
            /\ ~InputHas(k_deny)
            /\ ~InputHas(k_results)) => violations = JList(<<>>)

\* C10: for a registered framework and a violation list as the normalizer
\* returns it, with entries that are mappings with any fields missing, the
\* evaluation raises nothing: a run ends without an exception, or with the
\* one of writing the report.
C10_EvaluatorNeverRaises ==
    (/\ pc = "done"
     /\ ReporterRun
     /\ framework \in DOMAIN frameworks
     /\ violations # Unset
     /\ violations.type = "list"
     /\ \A i \in 1..Len(violations.items) : violations.items[i].type = "dict") =>
        raised \in {"none", "OSError"}

\* the part of C10 the code keeps: entries that are mappings whose policy is
\* a string or missing
C10_StringPolicies ==
    (/\ pc = "done"
     /\ ReporterRun
     /\ framework \in DOMAIN frameworks
     /\ violations # Unset
     /\ violations.type = "list"
     /\ \A i \in 1..Len(violations.items) :
           /\ violations.items[i].type = "dict"
           /\ FieldOf(violations.items[i], k_policy) # Unset
                 => FieldOf(violations.items[i], k_policy).type = "str") =>
        raised \in {"none", "OSError"}

\* C11: in every control result, findings is non-empty only when the status
\* is not PASS and evidence is non-empty only when it is PASS; a control that
\* no violation matches has status PASS, score 100, no findings and the one
\* evidence entry "No policy violations found for this control".
C11_FindingsEvidence ==
    results # Unset =>
        \A f \in EvaluatedNames : \A i \in 1..Len(results.controls) :
            LET r == results.controls[i] IN
            /\ r.findings # <<>> => r.status # "PASS"
            /\ r.evidence # <<>> => r.status = "PASS"
            /\ MatchCount(frameworks[f].controls[i]) = 0 =>
                  /\ r.status = "PASS"
                  /\ r.score = 100
                  /\ r.findings = <<>>
                  /\ r.evidence = <<No_policy_violations_found>>

\* a control that no violation matches beside one with findings, for a
\* violation list that is not empty
C11_Witness ==
    /\ results # Unset
    /\ \E f \in EvaluatedNames : \E i, j \in 1..Len(results.controls) :
          /\ MatchCount(frameworks[f].controls[i]) = 0
          /\ Len(results.controls[i].evidence) = 1
          /\ MatchCount(frameworks[f].controls[j]) > 0
          /\ results.controls[j].findings # <<>>
          /\ results.controls[j].evidence = <<>>

\* C12: for each of the four registered frameworks, the evaluation of the
\* empty violation list has overall_score 100.0, pass_count equal to the
\* number of controls of the framework, and partial_count = fail_count = 0.
C12_EmptyInput ==
    (/\ results # Unset
     /\ violations.type = "list"
     /\ violations.items = <<>>) =>
        \A f \in EvaluatedNames \cap {"sox", "pci", "ffiec", "glba"} :
            /\ results.overall_score = 1000
            /\ results.pass_count = Len(frameworks[f].controls)
            /\ results.pass_count = Len(FRAMEWORK_CONTROLS[f].controls)
            /\ results.partial_count = 0
            /\ results.fail_count = 0

\* a batch run over the empty list has evaluated and written all four
\* frameworks
C12_Witness ==
    /\ pc = "done"
    /\ request.framework = "all"
    /\ input = JList(<<>>)
    /\ violations = JList(<<>>)
    /\ written = {"sox", "pci", "ffiec", "glba"}
    /\ results.pass_count = 5
    /\ results.overall_score = 1000

\* the status and score of the control result with the given control_id
StatusScore(control_id) ==
    LET r == results.controls[CHOOSE i \in 1..Len(results.controls) :
                                 results.controls[i].control_id = control_id]
    IN  <<r.status, r.score>>

\* C13: the evaluation of "sox" against exactly three violations whose policy
\* is "aws.security.s3_encryption" has SOX-302 PASS / 100, SOX-404 FAIL / 25,
\* SOX-ITGC PASS / 100, pass_count 2, fail_count 1 and overall_score 75.0.
C13_SoxExample ==
    (/\ results # Unset
     /\ "sox" \in EvaluatedNames
     /\ Len(violations.items) = 3
     /\ \A i \in 1..3 : PolicyOf(violations.items[i]) = aws_security_s3_encryption) =>
        /\ Len(results.controls) = 3
        /\ StatusScore("SOX-302") = <<"PASS", 100>>
        /\ StatusScore("SOX-404") = <<"FAIL", 25>>
        /\ StatusScore("SOX-ITGC") = <<"PASS", 100>>
        /\ results.pass_count = 2
        /\ results.partial_count = 0
        /\ results.fail_count = 1
        /\ results.overall_score = 750

\* "sox" has been evaluated against three such violations
C13_Witness ==
    /\ results # Unset
    /\ "sox" \in EvaluatedNames
    /\ violations = JList(<<EntryS3, EntryS3, EntryS3>>)
    /\ pc = "write"

ConftestInput ==
    /\ InputHas(k_results)
    /\ ~InputHas(k_violations)
    /\ ~InputHas(k_deny)
    /\ WellFormedResults(InputValue(k_results))

\* the failures of the conftest input whose "msg" is not a mapping
SkippedFailures ==
    LET rs == InputValue(k_results) IN
    UNION {
        IF FieldOf(rs.items[r], k_failures) = Unset THEN {}
        ELSE {<<r, j>> : j \in
                {j \in 1..Len(FieldOf(rs.items[r], k_failures).items) :
                    FieldOf(FieldOf(rs.items[r], k_failures).items[j], k_msg).type # "dict"}}
        : r \in 1..Len(rs.items)}

\* C15: for a conftest document load_violations returns, in the order of the
\* results and then of the failures, exactly the "msg" of each failure whose
\* "msg" is a mapping, with the fields it has and no others; the failures
\* whose "msg" is not a mapping are left out without an error message and
\* without effect on the others.
C15_ConftestExtraction ==
    (ReporterRun /\ violations # Unset /\ ConftestInput) =>
        /\ violations.type = "list"
        /\ IsExtractionOf(violations.items, InputValue(k_results))
        /\ \A n \in 1..Len(violations.items) :
              \A key \in {k_resource, k_severity, k_message, k_remediation, k_compliance} :
                  FieldOf(violations.items[n], key) # Unset =>
                      \E p \in MsgPlaces(InputValue(k_results)) :
                          FieldOf(FieldOf(FieldOf(InputValue(k_results).items[p[1]],
                                                  k_failures).items[p[2]], k_msg), key)
                              = FieldOf(violations.items[n], key)
        /\ "Error loading violations" \notin stderr

\* a failure without "msg" stands between two failures whose "msg" is a
\* mapping, and both are returned
C15_Witness ==
    /\ ReporterRun
    /\ violations # Unset
    /\ ConftestInput
    /\ SkippedFailures # {}
    /\ \E p \in SkippedFailures : \E q \in MsgPlaces(InputValue(k_results)) :
          q[1] = p[1] /\ q[2] > p[2]
    /\ violations = JList(<<EntrySox, EntryS3>>)

\* str.lower of a framework name, for the names of the runs
lower(name) ==
    CASE name \in {"SOX", "Sox"} -> "sox"
      [] OTHER -> name

\* C16: a run that names a registered framework in any letter case is
\* resolved to the framework of the lower-case name and has its result: when
\* the run has ended, the stored result is that of evaluating the lower-case
\* name against the violations of the input.
C16_CaseInsensitive ==
    (/\ ReporterRun
     /\ pc = "done"
     /\ lower(request.framework) \in DOMAIN FRAMEWORK_CONTROLS
     /\ input # FileMissing
     /\ IsSized(load_violations(input).value)) =>
        LET expected == evaluate_framework(FRAMEWORK_CONTROLS,
                            lower(request.framework), load_violations(input).value)
        IN  expected.raised = "none" =>
                /\ results = expected.value
                /\ raised \in {"none", "OSError"}

\* the part of C16 the code keeps: the lower-case names
C16_LowerCaseNames ==
    (/\ ReporterRun
     /\ pc = "done"
     /\ request.framework \in DOMAIN FRAMEWORK_CONTROLS
     /\ input # FileMissing
     /\ IsSized(load_violations(input).value)) =>
        LET expected == evaluate_framework(FRAMEWORK_CONTROLS,
                            request.framework, load_violations(input).value)
        IN  expected.raised = "none" =>
                /\ results = expected.value
                /\ raised \in {"none", "OSError"}

\* the key under which the JSON summary tallies a violation: the value of
\* its severity field, "UNKNOWN" when the field is missing
SeverityKey(v) ==
    IF FieldOf(v, k_severity) = Unset THEN JStr(UNKNOWN) ELSE FieldOf(v, k_severity)

\* the sum of the counts of a dict of counters
RECURSIVE SumCounts(_)
SumCounts(d) ==
    IF d = <<>> THEN 0 ELSE Head(d)[2] + SumCounts(Tail(d))

\* C17: in the JSON summary every violation is tallied in by_severity under
\* the value of its severity field as it stands ("UNKNOWN" only when the
\* field is missing); the counts of by_severity sum to total_violations,
\* the length of the violation list.
C17_LiteralSeverity ==
    summary.json # Unset =>
        LET vs == violations.items
            by_severity == summary.json.by_severity
        IN  /\ summary.json.total_violations = Len(vs)
            /\ SumCounts(by_severity) = Len(vs)
            /\ {by_severity[k][1] : k \in 1..Len(by_severity)}
                   = {SeverityKey(vs[i]) : i \in 1..Len(vs)}
            /\ \A k \in 1..Len(by_severity) :
                  by_severity[k][2]
                      = Cardinality({i \in 1..Len(vs) : SeverityKey(vs[i]) = by_severity[k][1]})
            /\ \A k, l \in 1..Len(by_severity) :
                  by_severity[k][1] = by_severity[l][1] => k = l

\* a JSON summary of a violation with the severity "INFO", one without
\* severity and one with "HIGH"
C17_Witness ==
    /\ summary.json # Unset
    /\ violations = JList(<<EntryInfo, EntryEmpty, EntryS3>>)
    /\ Len(summary.json.by_severity) = 3
    /\ summary.json.by_severity[1] = <<JStr(<<"I", "N", "F", "O">>), 1>>
    /\ summary.json.by_severity[2] = <<JStr(UNKNOWN), 1>>

\* the policy of a violation as a summary reads it: the characters of the
\* field, none when it is missing
SummaryPolicy(v) ==
    IF FieldOf(v, k_policy) = Unset THEN <<>> ELSE FieldOf(v, k_policy).s

\* the policy begins with the characters of the cloud prefix
HasPrefix(policy, prefix) ==
    /\ Len(policy) >= Len(prefix)
    /\ \A c \in 1..Len(prefix) : policy[c] = prefix[c]

\* the positions of the dots of a policy
Dots(policy) ==
    {i \in 1..Len(policy) : policy[i] = "."}

\* the characters between the first and the second dot
SecondSegment(policy) ==
    LET d1 == CHOOSE i \in Dots(policy) : \A j \in Dots(policy) : i <= j
        d2 == CHOOSE i \in Dots(policy) \ {d1} : \A j \in Dots(policy) \ {d1} : i <= j
    IN  [c \in 1..(d2 - d1 - 1) |-> policy[d1 + c]]

\* the violations counted for a cloud, and for a category
OfCloud(vs, prefix) ==
    {i \in 1..Len(vs) : HasPrefix(SummaryPolicy(vs[i]), prefix)}

OfCategory(vs, category) ==
    {i \in OfCloud(vs, aws_dot) \cup OfCloud(vs, azure_dot) :
        /\ Cardinality(Dots(SummaryPolicy(vs[i]))) >= 2
        /\ SecondSegment(SummaryPolicy(vs[i])) = category}

\* by_cloud counts the violations of each cloud and has no other key
CloudCounts(by_cloud, vs) ==
    /\ count_of(by_cloud, "AWS") = Cardinality(OfCloud(vs, aws_dot))
    /\ count_of(by_cloud, "Azure") = Cardinality(OfCloud(vs, azure_dot))
    /\ \A k \in 1..Len(by_cloud) :
          by_cloud[k][1] \in {"AWS", "Azure"} /\ by_cloud[k][2] > 0
    /\ SumCounts(by_cloud) <= Len(vs)

\* C18: a summary counts a violation under "AWS" iff its policy starts with
\* "aws.", under "Azure" iff it starts with "azure.", and under no cloud
\* otherwise; the HTML summary counts the second dot-delimited segment as a
\* category iff a cloud prefix matched and the policy has at least three
\* segments; the category counts sum to at most the cloud counts, which sum
\* to at most the total.
C18_CloudAndCategory ==
    /\ summary.json # Unset =>
          CloudCounts(summary.json.by_cloud, violations.items)
    /\ summary.html # Unset =>
          LET vs == violations.items
              by_category == summary.html.by_category
          IN  /\ CloudCounts(summary.html.by_cloud, vs)
              /\ \A k \in 1..Len(by_category) :
                    /\ by_category[k][2] > 0
                    /\ by_category[k][2] = Cardinality(OfCategory(vs, by_category[k][1]))
              /\ \A i \in OfCloud(vs, aws_dot) \cup OfCloud(vs, azure_dot) :
                    Cardinality(Dots(SummaryPolicy(vs[i]))) >= 2 =>
                        count_of(by_category, SecondSegment(SummaryPolicy(vs[i]))) > 0
              /\ SumCounts(by_category) <= SumCounts(summary.html.by_cloud)
              /\ SumCounts(summary.html.by_cloud) <= summary.html.total

\* both summaries of an AWS policy of two segments, an Azure policy of three
\* and a policy of no cloud
C18_Witness ==
    /\ summary.json # Unset
    /\ summary.html # Unset
    /\ violations = JList(<<EntryInfo, EntryAzure, EntrySoxUpper>>)
    /\ summary.html.by_cloud = << <<"AWS", 1>>, <<"Azure", 1>> >>
    /\ summary.html.by_category = << <<<<"s", "e", "c", "u", "r", "i", "t", "y">>, 1>> >>

\* the text of a field in a finding: the field's string, the default when
\* the field is missing
FieldText(v, key, default) ==
    IF FieldOf(v, key) = Unset THEN default ELSE FieldOf(v, key).s

\* the finding of a violation: "{severity}: {message}"
FindingText(v) ==
    FieldText(v, k_severity, MEDIUM) \o <<":", " ">> \o FieldText(v, k_message, No_message)

\* the positions of the violations that match the control, in input order
RECURSIVE MatchedFrom(_, _)
MatchedFrom(control, i) ==
    IF i > Len(violations.items) THEN <<>>
    ELSE (IF Matches(control, violations.items[i]) THEN <<i>> ELSE <<>>)
            \o MatchedFrom(control, i + 1)

\* the violation matches more than one prefix of the control
MatchesSeveral(control, v) ==
    \E k, l \in 1..Len(control.policy_mappings) :
        /\ k # l
        /\ HasPrefix(PolicyOf(v), control.policy_mappings[k])
        /\ HasPrefix(PolicyOf(v), control.policy_mappings[l])

\* C19: the findings of a control with status PARTIAL or FAIL are one string
\* per matched violation, in the order of the input, each "{severity}:
\* {message}" with "MEDIUM" for a missing severity and "No message" for a
\* missing message; a violation that matches several prefixes of the control
\* gives one finding and counts once toward the threshold.
C19_Findings ==
    results # Unset =>
        \A f \in EvaluatedNames : \A i \in 1..Len(results.controls) :
            LET r == results.controls[i]
                matched == MatchedFrom(frameworks[f].controls[i], 1)
            IN  /\ r.status \in {"PARTIAL", "FAIL"} =>
                      /\ Len(r.findings) = Len(matched)
                      /\ \A n \in 1..Len(matched) :
                            r.findings[n] = FindingText(violations.items[matched[n]])
                /\ r.status = "PARTIAL" <=> Len(matched) \in {1, 2}
                /\ r.status = "FAIL" <=> Len(matched) >= 3

\* a control with two findings, the first of a violation that matches two
\* of its prefixes, the second of one that matches one, both without
\* severity and message
C19_Witness ==
    /\ results # Unset
    /\ results.framework = "Layered"
    /\ violations = JList(<<EntrySox, EntryS3, EntrySoxShorter>>)
    /\ MatchesSeveral(frameworks["layered"].controls[1], EntrySox)
    /\ results.controls[1].status = "PARTIAL"
    /\ Len(results.controls[1].findings) = 2

\* findings with the severity and message of the violation, in a result
\* with a failed control
C19_WitnessFields ==
    /\ results # Unset
    /\ violations = JList(<<EntrySox, EntryS3, EntrySox>>)
    /\ \E i \in 1..Len(results.controls) :
          /\ results.controls[i].status = "FAIL"
          /\ results.controls[i].findings[2] = HIGH \o <<":", " ", "m">>

\* C20: the severity counts of the HTML summary account for every violation:
\* critical + high + medium + low, plus the overflow count for the other
\* values where the summary has one, equals the summary's total.
C20_SeverityCountsComplete ==
    summary.html # Unset =>
        LET reported == summary.html IN
        reported.critical + reported.high + reported.medium + reported.low
            + (IF "overflow" \in DOMAIN reported THEN reported.overflow ELSE 0)
            = reported.total

\* the part of C20 the code keeps: the four counts sum to the total when
\* every violation has one of the four labels as its severity
C20_RecognisedSeverities ==
    (/\ summary.html # Unset
     /\ \A i \in 1..Len(violations.items) :
           SeverityKey(violations.items[i])
               \in {JStr(CRITICAL), JStr(HIGH), JStr(MEDIUM), JStr(LOW)}) =>
        summary.html.critical + summary.html.high + summary.html.medium
            + summary.html.low = summary.html.total

\* the generate command has ended on an input file that was read and parsed
GenerateEnded ==
    /\ request.kind = "cli_generate"
    /\ pc = "done"
    /\ ~InputError

\* C21: the generate command never fails on the shape of a parsed input or
\* on a missing field: it derives a violation list, the empty one where no
\* shape is recognised and with default fields for a conftest failure whose
\* "msg" is absent or is not a mapping, and exits with code 0.
C21_GenerateNeverFails ==
    GenerateEnded =>
        /\ raised = "none"
        /\ exit_code = 0
        /\ violations # Unset
        /\ violations.type = "list"

\* the part of C21 the code keeps: a conftest document whose failures are
\* mappings with a "msg" that is a mapping or absent gives one violation per
\* failure, each with all six fields, and exit code 0
C21_AbsentMsgDefaults ==
    (/\ GenerateEnded
     /\ InputHas(k_results)
     /\ WellFormedResults(InputValue(k_results))
     /\ SkippedFailures \subseteq
            {p \in SkippedFailures :
                FieldOf(FieldOf(InputValue(k_results).items[p[1]], k_failures).items[p[2]],
                        k_msg) = Unset}) =>
        /\ raised = "none"
        /\ exit_code = 0
        /\ Len(violations.items)
               = Cardinality(MsgPlaces(InputValue(k_results)))
                    + Cardinality(SkippedFailures)
        /\ \A n \in 1..Len(violations.items) :
              \A key \in {k_policy, k_resource, k_severity, k_message,
                           k_remediation, k_compliance} :
                  FieldOf(violations.items[n], key) # Unset

\* the place of a status in the order PASS, PARTIAL, FAIL
Rank(status) ==
    CASE status = "PASS" -> 0
      [] status = "PARTIAL" -> 1
      [] status = "FAIL" -> 2

\* C22: for every registered framework, a call of evaluate_framework with
\* one more violation than the call before (put in at any place) raises no
\* control's score, moves no control's status back toward PASS, and
\* increases neither pass_count nor overall_score; a call with the same
\* violations in another order changes no status, score, counter or
\* overall_score.
C22_Monotone ==
    [][(request.kind = "evaluate_framework" /\ raised' = "none") =>
          /\ Len(results'.controls) = Len(results.controls)
          /\ Len(violations'.items) > Len(violations.items) =>
                /\ \A i \in 1..Len(results.controls) :
                      /\ results'.controls[i].score <= results.controls[i].score
                      /\ Rank(results'.controls[i].status)
                            >= Rank(results.controls[i].status)
                /\ results'.pass_count <= results.pass_count
                /\ results'.overall_score <= results.overall_score
          /\ Len(violations'.items) = Len(violations.items) =>
                /\ \A i \in 1..Len(results.controls) :
                      /\ results'.controls[i].score = results.controls[i].score
                      /\ results'.controls[i].status = results.controls[i].status
                /\ results'.pass_count = results.pass_count
                /\ results'.partial_count = results.partial_count
                /\ results'.fail_count = results.fail_count
                /\ results'.overall_score = results.overall_score
      ]_vars

\* a framework evaluated against a list that was extended three times, with
\* a control that has gone to PARTIAL and one that has gone on to FAIL
C22_Witness ==
    /\ request.kind = "evaluate_framework"
    /\ pc = "evaluated"
    /\ Len(violations.items) = 3
    /\ violations.items[1] # violations.items[2]
    /\ results.partial_count > 0
    /\ results.fail_count > 0
    /\ results.overall_score < 1000

============================================================================
